---- MODULE Spec2Model ----
(***************************************************************************)
(* multimap_server (src/src/main.cpp): a process that reads a multimap     *)
(* configuration document, constructs one Map object per (namespace, map   *)
(* name) entry, each of which advertises a static_map service and two      *)
(* latched topics, and then spins serving GetMap requests.                 *)
(***************************************************************************)
EXTENDS Integers, Sequences, FiniteSets, TLC

(***************************************************************************)
(* Bounds of the model.                                                    *)
(***************************************************************************)
MaxUnits == 3
MaxNamespaces == 2
MaxTime == 1
MaxRequests == 2

(***************************************************************************)
(* YAML node contents.  A key of a YAML mapping is absent, present with a  *)
(* value that does not convert to the requested C++ type, or present with  *)
(* a value that converts.                                                  *)
(***************************************************************************)
Absent == [k |-> "absent"]
Invalid == [k |-> "invalid"]
Val(v) == [k |-> "val", v |-> v]
IsVal(n) == n.k = "val"

\* What node.as<T>() throws when the conversion fails depends on the yaml-cpp
\* build: YAML::InvalidScalar, or another exception derived from
\* YAML::Exception (itself a std::runtime_error).
YamlExceptions == {"InvalidScalar", "BadConversion"}

(***************************************************************************)
(* Paths are sequences of tokens, "/" being the separator.                 *)
(***************************************************************************)
RECURSIVE LastSlash(_, _)
LastSlash(p, i) == IF i = 0 THEN 0 ELSE IF p[i] = "/" THEN i ELSE LastSlash(p, i - 1)

\* dirname(3)
dirname(p) ==
  LET s == LastSlash(p, Len(p))
  IN IF s = 0 THEN <<".">> ELSE IF s = 1 THEN <<"/">> ELSE SubSeq(p, 1, s - 1)

\* lines 137-148: an image path that does not start with '/' is taken relative
\* to the directory of the map file that declares it.
ResolveImagePath(fname, mapfname) ==
  IF mapfname[1] # "/" THEN dirname(fname) \o <<"/">> \o mapfname ELSE mapfname

(***************************************************************************)
(* Image files on disk and their decoded pixels.  A pixel is an intensity  *)
(* 0..255 with an alpha value (255 = opaque).                              *)
(***************************************************************************)
Px(v, a) == [v |-> v, a |-> a]

ImageA == << <<Px(0, 255), Px(255, 255)>>, <<Px(128, 255), Px(0, 0)>> >>
ImageB == << <<Px(255, 255), Px(100, 255), Px(0, 255)>> >>

PathA == <<"/", "maps", "/", "A.pgm">>
PathB == <<"/", "maps", "/", "B.pgm">>

Disk == (PathA :> ImageA) @@ (PathB :> ImageB)

MapMode == {"TRINARY", "SCALE", "RAW"}

\* One cell of the grid from one pixel.  occ and the thresholds are in units
\* of 1/255.
ConvertPixel(p, negate, occ_th, free_th, mode) ==
  LET occ == IF negate # 0 THEN p.v ELSE 255 - p.v
  IN IF p.a < 255 THEN -1
     ELSE IF mode = "RAW" THEN occ
     ELSE IF occ > occ_th THEN 100
     ELSE IF occ < free_th THEN 0
     ELSE IF mode = "TRINARY" THEN -1
     ELSE (100 * (occ - free_th)) \div (occ_th - free_th)

\* Row-major cells; image row r is grid row height-1-r.
RECURSIVE ConvertRows(_, _, _, _, _, _)
ConvertRows(img, r, negate, occ_th, free_th, mode) ==
  IF r = 0 THEN <<>>
  ELSE [c \in 1..Len(img[r]) |-> ConvertPixel(img[r][c], negate, occ_th, free_th, mode)]
       \o ConvertRows(img, r - 1, negate, occ_th, free_th, mode)

\* multimap_server::loadMapFromFile: throws std::runtime_error when the image
\* cannot be decoded, otherwise fills the response's grid.
loadMapFromFile(mapfname, res, negate, occ_th, free_th, origin, mode) ==
  IF mapfname \notin DOMAIN Disk
  THEN [ok |-> FALSE]
  ELSE LET img == Disk[mapfname]
       IN [ok |-> TRUE,
           info |-> [width |-> Len(img[1]), height |-> Len(img),
                     resolution |-> res, origin |-> origin, map_load_time |-> 0],
           data |-> ConvertRows(img, Len(img), negate, occ_th, free_th, mode)]

(***************************************************************************)
(* Map::Map, lines 61-152: reading the per-map declaration file.           *)
(* A read yields [st |-> "ok", v |-> value], or st = "exit" (the handler   *)
(* caught the exception and called exit(-1)), or st = "throw" (the         *)
(* exception is not the one the handler names and leaves the constructor). *)
(***************************************************************************)
Ok(v) == [st |-> "ok", v |-> v]
Raised(exc) == [st |-> IF exc = "InvalidScalar" THEN "exit" ELSE "throw"]

\* lines 84-89
ReadResolution(doc, exc) ==
  IF IsVal(doc.resolution) THEN Ok(doc.resolution.v) ELSE Raised(exc)

\* A read whose failure falls back to a default instead of ending the process.
ReadNegate_Defaulting(doc, exc) ==
  IF IsVal(doc.negate) THEN [st |-> "ok", v |-> doc.negate.v] ELSE [st |-> "ok", v |-> 0]

\* lines 90-95
ReadNegate(doc, exc) ==
  IF IsVal(doc.negate) THEN Ok(doc.negate.v) ELSE Raised(exc)

\* lines 96-101
ReadOccupiedThresh(doc, exc) ==
  IF IsVal(doc.occupied_thresh) THEN Ok(doc.occupied_thresh.v) ELSE Raised(exc)

\* lines 102-107
ReadFreeThresh(doc, exc) ==
  IF IsVal(doc.free_thresh) THEN Ok(doc.free_thresh.v) ELSE Raised(exc)

\* A mode parser that takes every unknown string for trinary.
ReadMode_Lenient(doc, exc) ==
  IF IsVal(doc.mode)
  THEN LET modeS == doc.mode.v
       IN IF modeS = "scale" THEN [st |-> "ok", v |-> "SCALE"]
          ELSE IF modeS = "raw" THEN [st |-> "ok", v |-> "RAW"]
          ELSE [st |-> "ok", v |-> "TRINARY"]
  ELSE [st |-> "ok", v |-> "TRINARY"]

\* lines 67, 108-125: every YAML::Exception of the read is caught and leaves
\* the mode TRINARY; a mode string other than the three names exits.
ReadMode(doc, exc) ==
  IF IsVal(doc.mode)
  THEN LET modeS == doc.mode.v
       IN IF modeS = "trinary" THEN Ok("TRINARY")
          ELSE IF modeS = "scale" THEN Ok("SCALE")
          ELSE IF modeS = "raw" THEN Ok("RAW")
          ELSE [st |-> "exit"]
  ELSE Ok("TRINARY")

\* lines 126-133: elements 0, 1 and 2 of the origin sequence.
ReadOrigin(doc, exc) ==
  IF IsVal(doc.origin) /\ Len(doc.origin.v) >= 3
  THEN Ok(SubSeq(doc.origin.v, 1, 3))
  ELSE Raised(exc)

\* lines 134-152
ReadImage(fname, doc, exc) ==
  IF IsVal(doc.image)
  THEN IF Len(doc.image.v) = 0 THEN [st |-> "exit"]
       ELSE Ok(ResolveImagePath(fname, doc.image.v))
  ELSE Raised(exc)

\* The reads in the constructor's order; the first one that fails decides.
ParseDeclaration(fname, doc, exc) ==
  LET res == ReadResolution(doc, exc)
      neg == ReadNegate(doc, exc)
      occ == ReadOccupiedThresh(doc, exc)
      fre == ReadFreeThresh(doc, exc)
      mod == ReadMode(doc, exc)
      ori == ReadOrigin(doc, exc)
      img == ReadImage(fname, doc, exc)
      reads == <<res, neg, occ, fre, mod, ori, img>>
      bad == {i \in 1..Len(reads) : reads[i].st # "ok"}
  IN IF bad = {}
     THEN [st |-> "ok", resolution |-> res.v, negate |-> neg.v, occ_th |-> occ.v,
           free_th |-> fre.v, mode |-> mod.v, origin |-> ori.v, mapfname |-> img.v]
     ELSE [st |-> reads[CHOOSE i \in bad : \A j \in bad : i <= j].st]

\* lines 175, 179, 184
ServiceName(ns, desired_name) == ns \o "/" \o desired_name \o "/" \o "static_map"
MetadataTopicName(ns, desired_name) == ns \o "/" \o desired_name \o "/" \o "map_metadata"
MapTopicName(ns, desired_name) == ns \o "/" \o desired_name \o "/" \o "map"

\* lines 164-173: the response is stamped, then the metadata message is a
\* copy of the stamped info.
StampResponse(loaded, global_frame_id, t_load, t_stamp) ==
  [map |-> [info |-> [loaded.info EXCEPT !.map_load_time = t_load],
            header |-> [frame_id |-> global_frame_id, stamp |-> t_stamp],
            data |-> loaded.data]]

\* line 173: the copy is taken from the stamped response.
CopyMetaData(loaded, resp) == resp.map.info

(***************************************************************************)
(* Map::Map as a whole, lines 61-187.  file is the per-map file: readable  *)
(* or not, its name and its document.  The result is st = "exit",          *)
(* st = "throw", or st = "ok" with the constructed object.                 *)
(***************************************************************************)
MapCtor(file, ns, desired_name, global_frame_id, exc, t_load, t_stamp) ==
  IF ~file.readable THEN [st |-> "exit"]
  ELSE LET d == ParseDeclaration(file.fname, file.doc, exc)
       IN IF d.st # "ok" THEN [st |-> d.st]
          ELSE LET loaded == loadMapFromFile(d.mapfname, d.resolution, d.negate,
                                             d.occ_th, d.free_th, d.origin, d.mode)
               IN IF ~loaded.ok THEN [st |-> "exit"]
                  ELSE LET resp == StampResponse(loaded, global_frame_id, t_load, t_stamp)
                       IN [st |-> "ok",
                           map |-> [map_resp_ |-> resp,
                                    meta_data_message_ |-> CopyMetaData(loaded, resp),
                                    service |-> ServiceName(ns, desired_name),
                                    metadata_pub |-> MetadataTopicName(ns, desired_name),
                                    map_pub |-> MapTopicName(ns, desired_name),
                                    ns |-> ns, desired_name |-> desired_name,
                                    mode |-> d.mode]]

\* Map::mapCallback, lines 196-206: the response is a copy of map_resp_, and
\* the object is left as it was.
mapCallback(m) == m.map_resp_

\* A callback that moves the cached response out instead of copying it.
MapAfterCallback_Moved(m) == [m EXCEPT !.map_resp_.map.data = <<>>]

MapAfterCallback(m) == m

(***************************************************************************)
(* Inputs: the per-map files and the namespace records of the document.    *)
(***************************************************************************)
MapYaml == <<"/", "maps", "/", "m.yaml">>

Declaration(res, neg, occ, fre, mode, ori, img) ==
  [resolution |-> res, negate |-> neg, occupied_thresh |-> occ, free_thresh |-> fre,
   mode |-> mode, origin |-> ori, image |-> img]

BaseDecl ==
  Declaration(Val(5), Val(0), Val(166), Val(50), Val("trinary"), Val(<<0, 0, 0>>), Val(PathA))

File(doc) == [readable |-> TRUE, fname |-> MapYaml, doc |-> doc]
Unreadable == [readable |-> FALSE, fname |-> MapYaml, doc |-> BaseDecl]

\* The files of the multi-map specification: two that load (different images
\* and modes), one whose image is not on disk, one that cannot be opened.
MapFiles ==
  { File(BaseDecl),
    File([BaseDecl EXCEPT !.mode = Val("scale"), !.image = Val(<<"B.pgm">>)]),
    File([BaseDecl EXCEPT !.image = Val(<<"none.pgm">>)]),
    Unreadable }

\* The files of the single-map specification: every combination of the
\* fields' cases.
ResolutionNodes == {Absent, Invalid, Val(5), Val(0), Val(-5)}
NegateNodes == {Absent, Invalid, Val(0), Val(1)}
ThreshNodes(v) == {Absent, Invalid, Val(v)}
ModeNodes == {Absent, Invalid, Val("trinary"), Val("scale"), Val("raw"), Val("foo"), Val("")}
OriginNodes == {Absent, Invalid, Val(<<0, 0>>), Val(<<0, 0, 0>>)}
ImageNodes == {Absent, Invalid, Val(<<>>), Val(PathA), Val(<<"B.pgm">>), Val(<<"none.pgm">>)}

DeclFiles ==
  { File(Declaration(res, neg, occ, fre, mode, ori, img)) :
      res \in ResolutionNodes, neg \in NegateNodes, occ \in ThreshNodes(166),
      fre \in ThreshNodes(50), mode \in ModeNodes, ori \in OriginNodes,
      img \in ImageNodes }

NsNames == {"a", "a/b"}
MapNames == {"c", "b/c"}

NsRecord(name, gf, gfid, maps) ==
  [name |-> name, global_frame |-> gf, global_frame_id |-> gfid, maps |-> maps]

\* Namespace records: the key the code reads is global_frame; maps is
\* absent, an empty mapping, or a mapping with entries.
NsRecords ==
  { NsRecord(name, kv[1], kv[2], kv[3]) :
      name \in NsNames,
      kv \in { <<Absent, Val("map"), "nonempty">>,
               <<Val("map"), Absent, "nonempty">>,
               <<Val("odom"), Val("map"), "nonempty">>,
               <<Val("map"), Val("map"), "absent">>,
               <<Val("map"), Val("map"), "empty">>,
               <<Absent, Absent, "nonempty">> } }

(***************************************************************************)
(* State.                                                                  *)
(*   pc          "start", "build" (inside MultimapServer's constructor),   *)
(*               "serving" (inside ros::spin) or "exited"                  *)
(*   exit_code   the process status once exited                            *)
(*   cur         the namespace record the outer loop is at, or NoNs        *)
(*   maps_       the Map objects created by new Map(...), never freed      *)
(*   maps_vector the copies held by the constructor's local vector         *)
(*   services    service name -> index in maps_ of the object whose        *)
(*               mapCallback serves it                                     *)
(*   topics      topic name -> the latched message and the publish count   *)
(*   clock       ros::Time                                                 *)
(*   responses   the GetMap responses sent so far, in order                *)
(*   delivered   the last message handed to a new subscriber               *)
(*   ns_log      the namespace records read so far, with their map counts  *)
(*   attempt     the arguments of the last Map constructor call            *)
(*   fault       where the process was when it terminated abnormally       *)
(***************************************************************************)
VARIABLES pc, exit_code, cur, maps_, maps_vector, services, topics, clock,
          responses, delivered, ns_log, attempt, fault

vars == <<pc, exit_code, cur, maps_, maps_vector, services, topics, clock,
          responses, delivered, ns_log, attempt, fault>>

NoNs == [name |-> "", global_frame |-> Absent, global_frame_id |-> Absent, maps |-> "none"]
NoAttempt == [n |-> 0]
NoDelivery == [topic |-> ""]
EmptyMap == [x \in {} |-> 0]

Init ==
  /\ pc = "start"
  /\ exit_code = 0
  /\ cur = NoNs
  /\ maps_ = <<>>
  /\ maps_vector = <<>>
  /\ services = EmptyMap
  /\ topics = EmptyMap
  /\ clock = 0
  /\ responses = <<>>
  /\ delivered = NoDelivery
  /\ ns_log = <<>>
  /\ attempt = NoAttempt
  /\ fault = "none"

\* exit(-1), or main's catch block returning -1 (lines 73, 226, 323, 332-336).
Terminate(where) ==
  /\ pc' = "exited"
  /\ exit_code' = -1
  /\ fault' = where

\* ros::NodeHandle::advertiseService (line 176): a name already advertised
\* in this node keeps its first callback.
AdvertiseService(svc, name, idx) ==
  IF name \in DOMAIN svc THEN svc ELSE svc @@ (name :> idx)

\* ros::NodeHandle::advertise with latch = true, then publish (lines 180-181,
\* 185-186): the topic retains the last message published on it.
PublishLatched(tp, topic, msg) ==
  [t \in DOMAIN tp \cup {topic} |->
     IF t = topic
     THEN [latched |-> msg, npub |-> IF t \in DOMAIN tp THEN tp[t].npub + 1 ELSE 1]
     ELSE tp[t]]

\* lines 175-186: what a constructed Map registers.
Register(m, idx) ==
  /\ services' = AdvertiseService(services, m.service, idx)
  /\ topics' = PublishLatched(PublishLatched(topics, m.metadata_pub, m.meta_data_message_),
                              m.map_pub, m.map_resp_.map)

\* main, lines 319-324: a wrong argument count.
MainUsage ==
  /\ pc = "start"
  /\ Terminate("usage")
  /\ UNCHANGED <<cur, maps_, maps_vector, services, topics, clock, responses,
                 delivered, ns_log, attempt>>

\* MultimapServer::MultimapServer, lines 223-227: the top-level file.
OpenConfig(readable) ==
  /\ pc = "start"
  /\ IF readable THEN pc' = "build" /\ UNCHANGED <<exit_code, fault>>
     ELSE Terminate("config")
  /\ UNCHANGED <<cur, maps_, maps_vector, services, topics, clock, responses,
                 delivered, ns_log, attempt>>

\* lines 238-242: the outer loop moves to the next namespace record and
\* reads its global_frame; a failed read throws out of the constructor into
\* main's catch block.
MapsDone ==
  cur.maps = "nonempty" => ns_log[Len(ns_log)].nmaps > 0

BeginNamespace(limit) ==
  /\ pc = "build"
  /\ MapsDone
  /\ Len(ns_log) < limit
  /\ \E rec \in NsRecords :
       /\ ns_log' = Append(ns_log, [rec |-> rec, nmaps |-> 0])
       /\ IF IsVal(rec.global_frame)
          THEN /\ cur' = rec
               /\ UNCHANGED <<pc, exit_code, fault>>
          ELSE /\ Terminate("namespace")
               /\ UNCHANGED cur
  /\ UNCHANGED <<maps_, maps_vector, services, topics, clock, responses,
                 delivered, attempt>>

\* lines 243-262: the inner loop constructs the next Map of the current
\* namespace and copies it into the vector.  The inputs are the entry's map
\* name and file, the exception the YAML library raises on a failed read,
\* and the two clock readings.
ConstructMap(files, limit) ==
  /\ pc = "build"
  /\ cur.maps = "nonempty"
  /\ attempt.n < limit
  /\ \E desired_name \in MapNames, file \in files, exc \in YamlExceptions,
        t_load \in 1..MaxTime, t_stamp \in 1..MaxTime :
       /\ clock <= t_load /\ t_load <= t_stamp
       /\ LET r == MapCtor(file, cur.name, desired_name, cur.global_frame.v, exc,
                           t_load, t_stamp)
          IN /\ attempt' = [n |-> attempt.n + 1, ns |-> cur.name, name |-> desired_name,
                            file |-> file]
             /\ IF r.st = "ok"
                THEN /\ maps_' = Append(maps_, r.map)
                     /\ maps_vector' = Append(maps_vector, r.map)
                     /\ Register(r.map, Len(maps_) + 1)
                     /\ clock' = t_stamp
                     /\ ns_log' = [ns_log EXCEPT ![Len(ns_log)].nmaps = @ + 1]
                     /\ UNCHANGED <<pc, exit_code, fault>>
                ELSE /\ Terminate("map")
                     /\ UNCHANGED <<maps_, maps_vector, services, topics, clock, ns_log>>
  /\ UNCHANGED <<cur, responses, delivered>>

\* lines 263-282, 330: both loops are over, the constructor returns (its
\* vector of copies is destroyed, the objects made by new are not) and main
\* calls ros::spin().
Spin ==
  /\ pc = "build"
  /\ MapsDone
  /\ pc' = "serving"
  /\ cur' = NoNs
  /\ maps_vector' = <<>>
  /\ UNCHANGED <<exit_code, maps_, services, topics, clock, responses, delivered,
                 ns_log, attempt, fault>>

\* A GetMap request to an advertised service, dispatched by ros::spin() to
\* the mapCallback of the object that advertised it.
GetMap(name) ==
  /\ pc = "serving"
  /\ name \in DOMAIN services
  /\ Len(responses) < MaxRequests
  /\ LET i == services[name]
     IN /\ responses' = Append(responses,
                               [service |-> name, unit |-> i, res |-> mapCallback(maps_[i])])
        /\ maps_' = [maps_ EXCEPT ![i] = MapAfterCallback(maps_[i])]
  /\ UNCHANGED <<pc, exit_code, cur, maps_vector, services, topics, clock, delivered,
                 ns_log, attempt, fault>>

\* A subscriber connects to a latched topic and is handed the retained
\* message; the node's code is not involved.
Subscribe(topic) ==
  /\ pc \in {"build", "serving"}
  /\ topic \in DOMAIN topics
  /\ delivered' = [topic |-> topic, msg |-> topics[topic].latched]
  /\ UNCHANGED <<pc, exit_code, cur, maps_, maps_vector, services, topics, clock,
                 responses, ns_log, attempt, fault>>

\* ros::spin() returns on shutdown and main returns 0 (line 338).
Shutdown ==
  /\ pc = "serving"
  /\ pc' = "exited"
  /\ exit_code' = 0
  /\ UNCHANGED <<cur, maps_, maps_vector, services, topics, clock, responses,
                 delivered, ns_log, attempt, fault>>

ServiceNames == {ServiceName(ns, n) : ns \in NsNames, n \in MapNames}
TopicNames == {MetadataTopicName(ns, n) : ns \in NsNames, n \in MapNames}
                \cup {MapTopicName(ns, n) : ns \in NsNames, n \in MapNames}

Serve ==
  \/ \E name \in ServiceNames : GetMap(name)
  \/ \E topic \in TopicNames : Subscribe(topic)
  \/ Shutdown

\* The multi-map specification: up to MaxNamespaces namespace records and
\* MaxUnits map entries, over MapFiles.
Next ==
  \/ MainUsage
  \/ \E readable \in BOOLEAN : OpenConfig(readable)
  \/ BeginNamespace(MaxNamespaces)
  \/ ConstructMap(MapFiles, MaxUnits)
  \/ Spin
  \/ Serve

Spec == Init /\ [][Next]_vars

\* The single-map specification: one namespace record and one map entry,
\* over every combination of the declaration's fields.
NextDecl ==
  \/ MainUsage
  \/ \E readable \in BOOLEAN : OpenConfig(readable)
  \/ BeginNamespace(1)
  \/ ConstructMap(DeclFiles \cup {Unreadable}, 1)
  \/ Spin
  \/ Serve

SpecDecl == Init /\ [][NextDecl]_vars

(***************************************************************************)
(* Properties.                                                             *)
(***************************************************************************)
Units == 1..Len(maps_)

\* The unit the last constructor call built, when it built one.
Built == attempt.n > 0 /\ Len(maps_) = attempt.n

\* The declaration parses and its image path is not on disk.
ImageLoadFails(file) ==
  /\ file.readable
  /\ LET d == ParseDeclaration(file.fname, file.doc, "InvalidScalar")
     IN d.st = "ok" /\ d.mapfname \notin DOMAIN Disk

\* C1: when a map's image cannot be loaded the process terminates and no
\* endpoint was registered and no value published at any point of the run,
\* not even for the maps before the failing one.  (Registrations are never
\* withdrawn, so an empty registry at the end is an empty registry
\* throughout.)
C1_AllOrNothing ==
  (attempt.n > 0 /\ ImageLoadFails(attempt.file)) =>
    /\ pc = "exited" /\ exit_code # 0
    /\ DOMAIN services = {}
    /\ DOMAIN topics = {}

\* C2: two maps of one namespace under distinct names have distinct
\* static_map endpoints, both advertised once serving, and every response to
\* a request at one's endpoint is that map's own grid, never the other's.
C2_EndpointIsolation ==
  \A i \in Units, j \in Units :
    (maps_[i].ns = maps_[j].ns /\ maps_[i].desired_name # maps_[j].desired_name) =>
      /\ maps_[i].service # maps_[j].service
      /\ pc = "serving" => {maps_[i].service, maps_[j].service} \subseteq DOMAIN services
      /\ \A k \in 1..Len(responses) :
           responses[k].service = maps_[i].service =>
             /\ responses[k].res = maps_[i].map_resp_
             /\ maps_[j].map_resp_ # maps_[i].map_resp_ =>
                  responses[k].res # maps_[j].map_resp_

\* C3: any two GetMap responses of the same unit are equal in every field,
\* whatever requests came between them, and the stored grid is still what
\* was sent.
C3_GetMapIdempotent ==
  /\ \A k \in 1..Len(responses), l \in 1..Len(responses) :
       responses[k].unit = responses[l].unit => responses[k].res = responses[l].res
  /\ \A k \in 1..Len(responses) :
       maps_[responses[k].unit].map_resp_ = responses[k].res

\* Two requests answered by the same unit of a server that holds another
\* unit with a different grid.
C3_Witness ==
  /\ Len(responses) = 2
  /\ responses[1].unit = responses[2].unit
  /\ \E j \in Units : maps_[j].map_resp_ # responses[1].res

\* C4: no two units are ever registered under the same endpoint name; a
\* configuration that resolves two declarations to one endpoint ends in a
\* fatal error before the second unit exists.
C4_EndpointUnique ==
  \A i \in Units, j \in Units :
    i # j => maps_[i].service # maps_[j].service

RequiredFields == {"image", "resolution", "negate", "occupied_thresh", "free_thresh"}

\* A required field is absent or of the wrong type; for origin, it is not a
\* sequence of three numbers.
RequiredFieldBad(doc) ==
  \/ \E f \in RequiredFields : ~IsVal(doc[f])
  \/ ~IsVal(doc.origin)
  \/ IsVal(doc.origin) /\ Len(doc.origin.v) < 3

ModeOf(text) ==
  IF text = "trinary" THEN "TRINARY" ELSE IF text = "scale" THEN "SCALE" ELSE "RAW"

\* C6: a unit built from a declaration without a mode field has mode
\* TRINARY; one built from mode trinary, scale or raw has that mode; a mode
\* field holding any other text is fatal and builds nothing.
C6_ModeParsing ==
  attempt.n > 0 =>
    LET mode == attempt.file.doc.mode
    IN /\ (Built /\ mode = Absent) => maps_[attempt.n].mode = "TRINARY"
       /\ (Built /\ IsVal(mode)) =>
            /\ mode.v \in {"trinary", "scale", "raw"}
            /\ maps_[attempt.n].mode = ModeOf(mode.v)
       /\ (IsVal(mode) /\ mode.v \notin {"trinary", "scale", "raw"}) =>
            /\ pc = "exited" /\ exit_code # 0
            /\ ~Built

\* A declaration whose only defect is the mode text "foo" has ended the
\* process.
C6_Witness ==
  /\ attempt.n > 0 /\ attempt.file.readable
  /\ attempt.file.doc = [BaseDecl EXCEPT !.mode = Val("foo")]
  /\ pc = "exited" /\ fault = "map"

\* C7: a namespace record without global_frame_id, or with maps absent or
\* empty, is fatal; one with global_frame_id and a non-empty maps is
\* accepted, and its units carry the value of global_frame_id as frame id.
C7_NamespaceValidation ==
  /\ pc = "serving" =>
       \A i \in 1..Len(ns_log) :
         IsVal(ns_log[i].rec.global_frame_id) /\ ns_log[i].rec.maps = "nonempty"
  /\ fault = "namespace" =>
       LET rec == ns_log[Len(ns_log)].rec
       IN ~(IsVal(rec.global_frame_id) /\ rec.maps = "nonempty")
  /\ (Built /\ pc = "build" /\ ns_log[Len(ns_log)].nmaps > 0) =>
       LET rec == ns_log[Len(ns_log)].rec
       IN /\ IsVal(rec.global_frame_id)
          /\ maps_[attempt.n].map_resp_.map.header.frame_id = rec.global_frame_id.v

\* C8: each of a unit's two channels was published to exactly once, and a
\* subscriber connecting later is handed exactly that value.
C8_LatchedOnce ==
  \A i \in Units :
    /\ topics[maps_[i].metadata_pub].npub = 1
    /\ topics[maps_[i].map_pub].npub = 1
    /\ delivered.topic = maps_[i].metadata_pub =>
         delivered.msg = maps_[i].meta_data_message_
    /\ delivered.topic = maps_[i].map_pub => delivered.msg = maps_[i].map_resp_.map

\* C9: a declaration with a resolution of zero or less is fatal and builds
\* no unit.
C9_ResolutionPositive ==
  (attempt.n > 0 /\ attempt.file.readable /\ IsVal(attempt.file.doc.resolution)
     /\ attempt.file.doc.resolution.v <= 0) =>
    /\ pc = "exited" /\ exit_code # 0
    /\ ~Built

\* C10: for every unit, the value retained on its map_metadata channel is
\* the metadata of the grid retained on its map channel and of the grid of
\* every GetMap response at its endpoint (load time included).
C10_MetadataConsistent ==
  \A i \in Units :
    LET meta == topics[maps_[i].metadata_pub].latched
    IN /\ meta = topics[maps_[i].map_pub].latched.info
       /\ \A k \in 1..Len(responses) :
            responses[k].service = maps_[i].service => responses[k].res.map.info = meta

====
